---- MODULE Spec2Model ----
(***************************************************************************)
(* A model of pyzwaver/driver.py: the outbound priority queue              *)
(* (MessageQueueOut) and the Driver with its three worker threads          *)
(* (transmit, receive, forward), its callers (SendMessage,                 *)
(* WaitUntilAllPreviousMessagesHaveBeenHandled, Terminate), the serial     *)
(* device and the peer behind it.                                          *)
(*                                                                         *)
(* pyzwaver/zmessage.py (Message, InflightMessage, the priorities and the  *)
(* frame codec) is not among the source files; the definitions that stand  *)
(* for it are written from section 4.2 of the specification and are        *)
(* marked as such where they are defined.                                  *)
(***************************************************************************)
EXTENDS Integers, Sequences, FiniteSets, TLC

(***************************************************************************)
(* Bounds of the model.                                                    *)
(***************************************************************************)
\* puts explored by the queue specification SpecQ
MaxPuts == 5
\* messages the callers submit
NMsgs == 2
\* faults the device and the listener raise
MaxFaults == 1
\* data frames the peer sends
MaxFrames == 1
\* what the device buffers for device.read
MaxDevIn == 1
\* the retries the in-flight state machine grants a message
MaxRetries == 1
\* bytes the peer sends in the byte-level specification SpecRx
MaxBytes == 5
\* seconds the clock of SpecRx runs
MaxTime == 3
\* unsolicited frames the peer sends in the inbound specification SpecIn
MaxInFrames == 3

(***************************************************************************)
(* Destinations and priority levels.                                       *)
(***************************************************************************)
\* two addressable destinations (the nodes of the specification's scenario B)
Nodes == {3, 7}
\* the destination of messages that go to no node (controller, barrier)
NoNode == -1
AllNodes == Nodes \cup {NoNode}
\* the fairness-managed levels tested by put and get
HiLevel == 2
LoLevel == 3
\* a level that is neither: it takes the global counter (pure FIFO)
CtrlLevel == 1
\* the level of zmessage.LowestPriority(), below every other one
LowestLevel == 1000
FairLevels == {HiLevel, LoLevel}

Max(a, b) == IF a >= b THEN a ELSE b

(***************************************************************************)
(* MessageQueueOut.  The queue object is one record; _q, a PriorityQueue   *)
(* of ((level, count, node), message), is the set of its entries.          *)
(***************************************************************************)
ZeroCounts == [n \in AllNodes |-> 0]

\* MessageQueueOut.__init__
QInit ==
  [ q             |-> {},
    lo_counts     |-> ZeroCounts,
    hi_counts     |-> ZeroCounts,
    lo_min        |-> 0,
    hi_min        |-> 0,
    counter       |-> 0,
    per_node_size |-> ZeroCounts ]

\* qsize
QSize(Q) == Cardinality(Q.q)

\* qsize_for_node
QSizeForNode(Q, n) == Q.per_node_size[n]

\* the reset put performs when it finds the queue empty
QResetIfEmpty(Q) ==
  IF Q.q = {}
  THEN [Q EXCEPT !.lo_counts = ZeroCounts, !.hi_counts = ZeroCounts,
                 !.lo_min = 0, !.hi_min = 0]
  ELSE Q

\* put without the per-destination counters: every entry gets the global
\* counter (used to show that BurstFairness rests on QPutCount)
QPutCountGlobal(R, level, node) == R.counter

\* the counter put gives an entry of the given level and node
QPutCount(R, level, node) ==
  IF level = 2 THEN Max(R.hi_counts[node] + 1, R.hi_min)
  ELSE IF level = 3 THEN Max(R.lo_counts[node] + 1, R.lo_min)
  ELSE R.counter

\* put that leaves the global counter where it is (used to show that
\* ExpeditedFifo rests on QPut)
QPutStale(Q, level, node, msg) ==
  LET R     == QResetIfEmpty(Q)
      count == QPutCount(R, level, node)
  IN  [R EXCEPT
        !.hi_counts     = IF level = 2 THEN [@ EXCEPT ![node] = count] ELSE @,
        !.lo_counts     = IF level = 3 THEN [@ EXCEPT ![node] = count] ELSE @,
        !.per_node_size = [@ EXCEPT ![node] = @ + 1],
        !.q             = @ \cup {[level |-> level, count |-> count,
                                   node |-> node, msg |-> msg]}]

\* put(priority, message) with priority = (level, _, node)
QPut(Q, level, node, msg) ==
  LET R     == QResetIfEmpty(Q)
      count == QPutCount(R, level, node)
  IN  [R EXCEPT
        !.hi_counts     = IF level = 2 THEN [@ EXCEPT ![node] = count] ELSE @,
        !.lo_counts     = IF level = 3 THEN [@ EXCEPT ![node] = count] ELSE @,
        !.counter       = IF level \notin {2, 3} THEN @ + 1 ELSE @,
        !.per_node_size = [@ EXCEPT ![node] = @ + 1],
        !.q             = @ \cup {[level |-> level, count |-> count,
                                   node |-> node, msg |-> msg]}]

\* the order of the heap: tuples (level, count, node), then the message
PrioLess(e, f) ==
  \/ e.level < f.level
  \/ e.level = f.level /\ e.count < f.count
  \/ e.level = f.level /\ e.count = f.count /\ e.node < f.node
  \/ e.level = f.level /\ e.count = f.count /\ e.node = f.node /\ e.msg < f.msg

\* the entry _q.get() returns: the least one
QHead(Q) == CHOOSE e \in Q.q : \A f \in Q.q \ {e} : PrioLess(e, f)

\* the floors after get served entry e: the second test repeats level == 2,
\* so its branch, the one that would set _lo_min, is never taken
QFloorsAfterGet(Q, e) ==
  IF e.level = 2 THEN [Q EXCEPT !.hi_min = e.count]
  ELSE IF e.level = 2 THEN [Q EXCEPT !.lo_min = e.count]
  ELSE Q

\* a get that returns the head and leaves it queued (used to show that
\* CallbackAtMostOnce rests on QGet)
QGetKeep(Q) == QFloorsAfterGet(Q, QHead(Q))

\* get(): the queue after the head was removed (the caller blocks while the
\* queue is empty, so this is used only on a non-empty queue)
QGet(Q) ==
  LET e == QHead(Q)
  IN  [QFloorsAfterGet(Q, e) EXCEPT
        !.per_node_size = [@ EXCEPT ![e.node] = @ - 1],
        !.q             = @ \ {e}]

(***************************************************************************)
(* Messages.  Message, the priorities and InflightMessage live in          *)
(* pyzwaver/zmessage.py, which is not among the source files: what follows *)
(* up to "State" is written from sections 3, 4.2 and 4.4 of the            *)
(* specification.                                                          *)
(***************************************************************************)
\* the messages callers submit with SendMessage: 1 .. NMsgs
Msgs == 1 .. NMsgs
\* the barrier message of WaitUntilAllPreviousMessagesHaveBeenHandled
WaitMsg == NMsgs + 1
\* the barrier message of Terminate
TermMsg == NMsgs + 2
AllMsgs == 1 .. NMsgs + 2
NoMsg == 0

\* zmessage.LowestPriority(): a level below every other one
MsgLevel(m) ==
  IF m \in {WaitMsg, TermMsg} THEN LowestLevel
  ELSE IF m % 3 = 1 THEN LoLevel
  ELSE IF m % 3 = 2 THEN HiLevel
  ELSE CtrlLevel

MsgNode(m) ==
  IF m \in {WaitMsg, TermMsg} THEN NoNode
  ELSE IF m % 3 = 1 THEN 3
  ELSE IF m % 3 = 2 THEN 7
  ELSE NoNode

\* the barrier messages carry no payload (payload None)
HasPayload(m) == m \in Msgs

\* the expected-reply predicate: odd messages wait for a reply frame after
\* the acknowledge, even ones are complete once acknowledged
ExpectsReply(m) == m % 2 = 1

\* what travels on the channel: control bytes, message payloads and frames
Raw(kind, about) == [kind |-> kind, about |-> about]
RAW_MESSAGE_ACK == Raw("ACK", 0)
RAW_MESSAGE_NAK == Raw("NAK", 0)
RAW_MESSAGE_CAN == Raw("CAN", 0)
\* the payload of message m
PayloadOf(m) == Raw("MSG", m)
\* a data frame from the peer: the reply to message k, or unsolicited (k = 0)
Frame(k) == Raw("FRAME", k)
\* the shutdown marker Terminate puts into _in_queue (m is None)
Marker == Raw("NONE", 0)

\* InflightMessage(): nothing in flight
InflightIdle == [msg |-> NoMsg, state |-> "Idle", retries |-> 0]

\* StartMessage(m, ts): a message without payload is completed on the spot
\* and is not accepted; otherwise the message is accepted only when Idle.
\* done: the message's callback was invoked by this call.
StartMessage(I, m) ==
  IF ~HasPayload(m)
  THEN [inflight |-> I, accepted |-> FALSE, done |-> TRUE]
  ELSE IF I.state # "Idle"
  THEN [inflight |-> I, accepted |-> FALSE, done |-> FALSE]
  ELSE [inflight |-> [msg |-> m, state |-> "Sent", retries |-> 0],
        accepted |-> TRUE, done |-> FALSE]

\* NextActionForReceivedMessage(ts, m).  resolved: the terminal resolution
\* this call gave the message in flight ("none": still unresolved).
NextActionForReceivedMessage(I, raw) ==
  IF raw.kind = "FRAME"
  THEN IF I.state # "Idle" /\ ExpectsReply(I.msg) /\ raw.about = I.msg
       THEN [inflight |-> InflightIdle, action |-> "DO_PROPAGATE",
             resolved |-> "Success"]
       ELSE [inflight |-> I, action |-> "DO_PROPAGATE", resolved |-> "none"]
  ELSE IF I.state = "Idle"
  THEN [inflight |-> I, action |-> "DO_NOTHING", resolved |-> "none"]
  ELSE IF raw.kind = "ACK"
  THEN IF I.state # "Sent"
       THEN [inflight |-> I, action |-> "DO_NOTHING", resolved |-> "none"]
       ELSE IF ExpectsReply(I.msg)
       THEN [inflight |-> [I EXCEPT !.state = "AwaitingResponse"],
             action |-> "DO_NOTHING", resolved |-> "none"]
       ELSE [inflight |-> InflightIdle, action |-> "DO_NOTHING",
             resolved |-> "Success"]
  ELSE \* negative-acknowledge or collision
       IF I.retries + 1 > MaxRetries
       THEN [inflight |-> InflightIdle, action |-> "DO_NOTHING",
             resolved |-> "Failed"]
       ELSE [inflight |-> [I EXCEPT !.retries = @ + 1, !.state = "Sent"],
             action |-> "DO_RETRY", resolved |-> "none"]

(***************************************************************************)
(* State.                                                                  *)
(***************************************************************************)
VARIABLES
  \* ---- the Driver object
  out_queue,   \* _out_queue, a MessageQueueOut
  inflight,    \* _inflight, the InflightMessage
  send_lock,   \* _send_lock: NoThread or the thread that holds it
  terminate,   \* _terminate
  in_queue,    \* _in_queue: frames for the listeners, or the Marker
  raw_history, \* _raw_history: the payloads of its sent entries
  history,     \* _history: the messages that made it into _inflight
  arrived,     \* _termination_barrier: the parties waiting at it
  pc_ctor,     \* __init__ after the threads were started: "started" (line
               \*   206), "inflight_set" (after 208), "done" (after 210)
  \* ---- the worker threads, 1 .. 3 in the order of child_threads
  fn,          \* fn[t], the entry of child_threads whose function thread t
               \*   runs: what the lambda of line 202 found in fn
  pc,          \* where each thread is
  delay,       \* _run_child_thread's delay, in half seconds
  tx_msg,      \* _DriverSendingThread's local inflight
  rx_m,        \* the local m of _DriverReceivingThread and of
               \*   _DriverForwardingThread, per thread
  sending,     \* _SendRaw's payload, per thread
  after_send,  \* where the thread goes on after _SendRaw
  \* ---- the device, the peer behind it, the listener
  dev_in,      \* what the device holds for device.read
  wire,        \* the payloads passed to device.write by _SendRaw, in call order
  unanswered,  \* the message transmissions the peer has not answered yet
  frames_sent, \* data frames the peer has sent
  delivered,   \* what the listener was given, in order
  faults,      \* faults raised so far (device.read, device.write, listener)
  \* ---- the callers
  submitted,   \* messages passed to SendMessage
  pc_wait,     \* the caller of WaitUntilAllPreviousMessagesHaveBeenHandled
  wait_snapshot, \* the messages whose SendMessage returned before that call
  pc_term,     \* the caller of Terminate
  \* ---- what became of each message
  cb_count,    \* times the message's callback was invoked
  outcome,     \* its terminal resolution, "none" before
  rejected,    \* the messages StartMessage refused because one was in flight
  resends,     \* resends[m]: writes of m's payload by the receive loop
  not_nak,     \* the messages the peer answered with something else than a
               \*   negative-acknowledge
  \* ---- SpecQ
  nput,        \* puts made so far (the next message is nput + 1)
  last_get,    \* the entry the last get returned, or NoEntry
  owed,        \* owed[l][d], the destinations queued at level l when d
               \*   was last served there and not served since
  skipped,     \* owed[l][d] as it was when the last get served d at l
  served_since_empty, \* served_since_empty[l], get has served an entry
               \*   of level l since the queue was last empty
  burst,       \* burst[l], no put at level l has followed a get of level
               \*   l since the queue was last empty
  \* ---- the retry of the receive loop
  retrying,    \* retrying[t]: the message that was in flight when thread t
               \*   evaluated the byte it answers with a retry, else NoMsg
  \* ---- SpecRx: the receive loop byte by byte
  dev_bytes,   \* the bytes the device holds for device.read(1)
  bytes_sent,  \* bytes the peer has sent
  buf,         \* _DriverReceivingThread's local buf
  last_sof_arrival, \* its local last_sof_arrival, NoTime for None
  now,         \* time.time(), in seconds
  rx_last,     \* what the last iteration of the loop found at the head of
               \*   buf, and how many bytes of buf it discarded
  \* ---- SpecQC: put and get as they overlap in two threads
  putting,     \* the caller inside put: where it is, its entry and the
               \*   per-node size it has read
  getting      \* the transmit thread inside get: where it is, the node of
               \*   the entry it took and the per-node size it has read

qghost == <<nput, last_get, owed, skipped, served_since_empty, burst>>
objvars == <<inflight, send_lock, terminate, in_queue, raw_history, history,
             arrived, pc_ctor>>
thrvars == <<fn, pc, delay, tx_msg, rx_m, sending, after_send>>
devvars == <<dev_in, wire, unanswered, frames_sent, delivered, faults>>
callvars == <<submitted, pc_wait, wait_snapshot, pc_term>>
msgvars == <<cb_count, outcome, rejected, resends, not_nak>>
drvvars == <<objvars, thrvars, devvars, callvars, msgvars>>
bytevars == <<dev_bytes, bytes_sent, buf, last_sof_arrival, now, rx_last>>
qcvars == <<putting, getting>>
restvars == <<bytevars, qcvars>>
auxvars == <<retrying, restvars>>
sidevars == <<qghost, auxvars>>
vars == <<out_queue, sidevars, drvvars>>

NotPutting == [pc |-> "idle", entry |-> [level |-> 0, count |-> 0,
                                         node |-> NoNode, msg |-> 0],
               size |-> 0]
NotGetting == [pc |-> "idle", node |-> NoNode, size |-> 0]
NoTime == -1
NoIteration == [case |-> "none", dropped |-> 0]
NoEntry == [level |-> 0, count |-> 0, node |-> NoNode, msg |-> 0]
NoOwed == [l \in FairLevels |-> [d \in Nodes |-> {}]]

\* destinations with an entry at level l in queue Q
QueuedAt(Q, l) == {e.node : e \in {f \in Q.q : f.level = l}}

(***************************************************************************)
(* The Driver.  The initial state is that of __init__ at line 206: the     *)
(* device was cleared, the barrier made and the three threads started;     *)
(* _inflight and _send_lock are not assigned yet.                          *)
(*                                                                         *)
(* Each thread's target is lambda: self._run_child_thread(fn), and fn is   *)
(* the variable of the loop of line 201: the thread finds in it the        *)
(* function of its own entry of child_threads, or of a later entry when    *)
(* the loop has gone on before the thread evaluates the lambda.            *)
(*                                                                         *)
(* Two logs are kept in step with each other instead of in full: of        *)
(* _raw_history only the sent entries are kept (the received ones are      *)
(* never compared with anything), and as soon as the oldest sent entry and *)
(* the oldest write on the channel are the same payload both are dropped.  *)
(* A local variable is cleared when its value is dead.                     *)
(***************************************************************************)
\* child_threads, lines 190-194
child_threads == <<"tx", "rx", "fw">>
Threads == 1 .. Len(child_threads)
NoThread == 0
\* the caller of Terminate as a party of the barrier
Caller == 0
\* a barrier for the workers alone (used to show that TerminationSafety
\* rests on BarrierParties)
WorkersOnly == Len(child_threads)

\* threading.Barrier(len(child_threads) + 1)
BarrierParties == Len(child_threads) + 1

\* the functions the three threads can find in fn
StartOutcomes ==
  {f \in [Threads -> Threads] : \A t \in Threads : f[t] >= t}
\* every thread runs the function of its own entry
OwnFunctions == [t \in Threads |-> t]
\* thread t runs the function f
Runs(t, f) == child_threads[fn[t]] = f

DrvInit ==
  /\ inflight = InflightIdle
  /\ send_lock = NoThread
  /\ terminate = FALSE
  /\ in_queue = <<>>
  /\ raw_history = <<>>
  /\ history = <<>>
  /\ arrived = {}
  /\ pc_ctor = "started"
  /\ pc = [t \in Threads |-> "loop"]
  /\ delay = [t \in Threads |-> 1]
  /\ tx_msg = NoMsg
  /\ rx_m = [t \in Threads |-> Marker]
  /\ sending = [t \in Threads |-> Marker]
  /\ after_send = [t \in Threads |-> "loop"]
  /\ dev_in = <<>>
  /\ wire = <<>>
  /\ unanswered = <<>>
  /\ frames_sent = 0
  /\ delivered = <<>>
  /\ faults = 0
  /\ submitted = {}
  /\ pc_wait = "idle"
  /\ wait_snapshot = {}
  /\ pc_term = "idle"
  /\ cb_count = [m \in AllMsgs |-> 0]
  /\ outcome = [m \in AllMsgs |-> "none"]
  /\ rejected = {}
  /\ resends = [m \in AllMsgs |-> 0]
  /\ not_nak = {}
  /\ retrying = [t \in Threads |-> NoMsg]
  /\ dev_bytes = <<>>
  /\ bytes_sent = 0
  /\ buf = <<>>
  /\ last_sof_arrival = NoTime
  /\ now = 0
  /\ rx_last = NoIteration
  /\ putting = NotPutting
  /\ getting = NotGetting

QGhostInit ==
  /\ nput = 0
  /\ last_get = NoEntry
  /\ owed = NoOwed
  /\ skipped = {}
  /\ served_since_empty = [l \in FairLevels |-> FALSE]
  /\ burst = [l \in FairLevels |-> TRUE]

Init ==
  /\ DrvInit
  /\ fn \in StartOutcomes
  /\ QGhostInit
  /\ out_queue = QInit

\* self._inflight exists from line 208 on, self._send_lock from line 210 on
InflightAssigned == pc_ctor # "started"
LockAssigned == pc_ctor = "done"

\* __init__, lines 207-208
CtorInflight ==
  /\ pc_ctor = "started"
  /\ pc_ctor' = "inflight_set"
  /\ UNCHANGED <<out_queue, sidevars, inflight, send_lock, terminate, in_queue,
                 raw_history, history, arrived, thrvars, devvars, callvars,
                 msgvars>>

\* __init__, line 210; the constructor returns
CtorLock ==
  /\ pc_ctor = "inflight_set"
  /\ pc_ctor' = "done"
  /\ UNCHANGED <<out_queue, sidevars, inflight, send_lock, terminate, in_queue,
                 raw_history, history, arrived, thrvars, devvars, callvars,
                 msgvars>>

(***************************************************************************)
(* _run_child_thread: the supervision of a worker.                         *)
(***************************************************************************)
\* an exception leaves fn: the thread is about to sleep(delay); the locals
\* of fn are gone
Raised(t) ==
  /\ pc' = [pc EXCEPT ![t] = "backoff"]
  /\ sending' = [sending EXCEPT ![t] = Marker]
  /\ after_send' = [after_send EXCEPT ![t] = "loop"]
  /\ tx_msg' = IF Runs(t, "tx") THEN NoMsg ELSE tx_msg
  /\ rx_m' = [rx_m EXCEPT ![t] = Marker]

\* the threshold of line 319, 60 s, in half seconds
BackoffLimit == 120

\* a delay that is doubled without limit (used to show that Supervision
\* rests on NextDelay)
NextDelayUncapped(d) == d * 2

\* the delay after sleep(delay): doubled while below 60 s
NextDelay(d) == IF d < BackoffLimit THEN d * 2 ELSE d

\* fn() raises an exception, whatever the function and the cause (lines
\* 313-316)
BodyRaises(t) ==
  /\ pc[t] = "loop"
  /\ ~terminate
  /\ Raised(t)
  /\ UNCHANGED <<out_queue, sidevars, objvars, fn, delay, devvars, callvars,
                 msgvars>>

\* time.sleep(delay) is over; the delay is updated, the loop test is next.
\* The next call of the receive function starts with buf = b"" and
\* last_sof_arrival = None (lines 350-351).
Backoff(t) ==
  /\ pc[t] = "backoff"
  /\ pc' = [pc EXCEPT ![t] = "loop"]
  /\ delay' = [delay EXCEPT ![t] = NextDelay(delay[t])]
  /\ buf' = IF Runs(t, "rx") THEN <<>> ELSE buf
  /\ last_sof_arrival' = IF Runs(t, "rx") THEN NoTime ELSE last_sof_arrival
  /\ UNCHANGED <<out_queue, qghost, retrying, qcvars, dev_bytes, bytes_sent, now,
                 rx_last, objvars, fn, tx_msg, rx_m, sending, after_send,
                 devvars, callvars, msgvars>>

\* while not self._terminate turns out false (lines 311, 332, 352): the
\* worker leaves its loop and arrives at self._termination_barrier.wait()
LoopExit(t) ==
  /\ pc[t] = "loop"
  /\ terminate
  /\ pc' = [pc EXCEPT ![t] = "arrived"]
  /\ arrived' = arrived \cup {t}
  /\ UNCHANGED <<out_queue, sidevars, inflight, send_lock, terminate, in_queue,
                 raw_history, history, pc_ctor, fn, delay, tx_msg, rx_m,
                 sending, after_send, devvars, callvars, msgvars>>

(***************************************************************************)
(* _SendRaw(payload, comment), run by the threads that run the transmit    *)
(* and the receive function.                                               *)
(***************************************************************************)
\* _SendRaw without the lock (used to show that WriteMutualExclusion rests
\* on LockFree)
LockNeverHeld(t) == TRUE

\* with self._send_lock: the lock can be taken
LockFree(t) == send_lock = NoThread

\* the two logs with their common oldest entries dropped
InStep(log, chan) ==
  IF log # <<>> /\ chan # <<>> /\ Head(log) = Head(chan)
  THEN <<Tail(log), Tail(chan)>>
  ELSE <<log, chan>>

\* with self._send_lock: the section is entered and
\* self._LogSent(time.time(), payload, comment) run; the attribute does not
\* exist before line 210 (AttributeError)
SendEnter(t) ==
  /\ pc[t] = "send"
  /\ IF ~LockAssigned
     THEN /\ Raised(t)
          /\ UNCHANGED <<send_lock, raw_history>>
     ELSE /\ LockFree(t)
          /\ send_lock' = t
          /\ raw_history' = Append(raw_history, sending[t])
          /\ pc' = [pc EXCEPT ![t] = "write"]
          /\ UNCHANGED <<sending, after_send, tx_msg, rx_m>>
  /\ UNCHANGED <<out_queue, sidevars, inflight, terminate, in_queue, history,
                 arrived, pc_ctor, fn, delay, devvars, callvars, msgvars>>

\* self._device.write(payload); self._device.flush(); the section is left.
\* The write may fault.  The peer owes an answer to every message payload
\* it was sent.
SendWrite(t) ==
  /\ pc[t] = "write"
  /\ LET s == InStep(raw_history, Append(wire, sending[t]))
     IN  /\ raw_history' = s[1]
         /\ wire' = s[2]
  /\ send_lock' = NoThread
  /\ retrying' = [retrying EXCEPT ![t] = NoMsg]
  /\ resends' = IF Runs(t, "rx") /\ sending[t].kind = "MSG"
                THEN [resends EXCEPT ![sending[t].about] = @ + 1]
                ELSE resends
  /\ \/ /\ pc' = [pc EXCEPT ![t] = after_send[t]]
        /\ sending' = [sending EXCEPT ![t] = Marker]
        /\ after_send' = [after_send EXCEPT ![t] = "loop"]
        /\ unanswered' = IF sending[t].kind = "MSG"
                         THEN Append(unanswered, sending[t].about)
                         ELSE unanswered
        /\ UNCHANGED <<faults, tx_msg, rx_m>>
     \/ /\ faults < MaxFaults
        /\ faults' = faults + 1
        /\ Raised(t)
        /\ UNCHANGED unanswered
  /\ UNCHANGED <<out_queue, qghost, restvars, inflight, terminate, in_queue, history,
                 arrived, pc_ctor, fn, delay, dev_in, frames_sent,
                 delivered, callvars, cb_count, outcome, rejected, not_nak>>

(***************************************************************************)
(* Callbacks.  A submitted message's callback belongs to the caller; the   *)
(* barrier messages' callbacks release the lock their caller waits on, and *)
(* Terminate's sets _terminate first.                                      *)
(***************************************************************************)
\* message m is resolved as how and its callback is invoked
Resolve(m, how) ==
  /\ cb_count' = [cb_count EXCEPT ![m] = @ + 1]
  /\ outcome' = [outcome EXCEPT ![m] = how]
  /\ terminate' = IF m = TermMsg THEN TRUE ELSE terminate

(***************************************************************************)
(* _DriverSendingThread.                                                   *)
(***************************************************************************)
\* the messages the transmit loop recorded in _history and sent
Started == {history[i] : i \in 1 .. Len(history)}

\* while not self._terminate: inflight = self._out_queue.get(), which blocks
\* while the queue is empty
TxGet(t) ==
  /\ Runs(t, "tx")
  /\ pc[t] = "loop"
  /\ ~terminate
  /\ out_queue.q # {}
  /\ tx_msg' = QHead(out_queue).msg
  /\ out_queue' = QGet(out_queue)
  /\ pc' = [pc EXCEPT ![t] = "start"]
  /\ UNCHANGED <<sidevars, objvars, fn, delay, rx_m, sending, after_send,
                 devvars, callvars, msgvars>>

\* a transmit loop that ignores what StartMessage returns (used to show that
\* SingleOutstanding rests on TxProceeds)
TxProceedsAlways(accepted) == TRUE

\* if self._inflight.StartMessage(...): the loop goes on to record and send
\* the message exactly when StartMessage accepted it
TxProceeds(accepted) == accepted

\* StartMessage, and for an accepted message _RecordInflight and the call of
\* _SendRaw(inflight.payload, "")
TxStart(t) ==
  /\ pc[t] = "start"
  /\ IF ~InflightAssigned
     THEN /\ Raised(t)
          /\ UNCHANGED <<inflight, history, cb_count, outcome, terminate,
                         rejected>>
     ELSE LET r == StartMessage(inflight, tx_msg)
          IN  /\ inflight' = r.inflight
              /\ IF r.done
                 THEN Resolve(tx_msg, "Done")
                 ELSE UNCHANGED <<cb_count, outcome, terminate>>
              /\ rejected' = IF ~r.accepted /\ ~r.done
                             THEN rejected \cup {tx_msg} ELSE rejected
              /\ IF TxProceeds(r.accepted)
                 THEN /\ history' = Append(history, tx_msg)
                      /\ sending' = [sending EXCEPT ![t] = PayloadOf(tx_msg)]
                      /\ after_send' = [after_send EXCEPT ![t] = "wait"]
                      /\ pc' = [pc EXCEPT ![t] = "send"]
                      /\ UNCHANGED <<tx_msg, rx_m>>
                 ELSE /\ pc' = [pc EXCEPT ![t] = "loop"]
                      /\ tx_msg' = NoMsg
                      /\ UNCHANGED <<history, sending, after_send, rx_m>>
  /\ UNCHANGED <<out_queue, sidevars, send_lock, in_queue, raw_history, arrived,
                 pc_ctor, fn, delay, devvars, callvars, resends, not_nak>>

\* WaitForMessageCompletion returns: the message was resolved
TxWait(t) ==
  /\ pc[t] = "wait"
  /\ inflight.msg # tx_msg
  /\ pc' = [pc EXCEPT ![t] = "loop"]
  /\ tx_msg' = NoMsg
  /\ UNCHANGED <<out_queue, sidevars, objvars, fn, delay, rx_m, sending,
                 after_send, devvars, callvars, msgvars>>

\* WaitForMessageCompletion's deadline passes with the message unresolved:
\* it is resolved TimedOut and the wait returns
TxTimeout(t) ==
  /\ pc[t] = "wait"
  /\ inflight.msg = tx_msg
  /\ inflight' = InflightIdle
  /\ Resolve(tx_msg, "TimedOut")
  /\ pc' = [pc EXCEPT ![t] = "loop"]
  /\ tx_msg' = NoMsg
  /\ UNCHANGED <<out_queue, sidevars, send_lock, in_queue, raw_history, history,
                 arrived, pc_ctor, fn, delay, rx_m, sending, after_send,
                 devvars, callvars, rejected, resends, not_nak>>

(***************************************************************************)
(* _DriverReceivingThread.  The device hands over whole raw messages: the  *)
(* iterations that collect the bytes of one frame are one read here, and   *)
(* a read that times out with nothing read changes nothing.                *)
(***************************************************************************)
\* while not self._terminate: r = self._device.read(1): a raw message, or a
\* fault of the device
RxRead(t) ==
  /\ Runs(t, "rx")
  /\ pc[t] = "loop"
  /\ ~terminate
  /\ \/ /\ dev_in # <<>>
        /\ rx_m' = [rx_m EXCEPT ![t] = Head(dev_in)]
        /\ dev_in' = Tail(dev_in)
        /\ pc' = [pc EXCEPT ![t] = "decide"]
        /\ UNCHANGED <<faults, sending, after_send, tx_msg>>
     \/ /\ faults < MaxFaults
        /\ faults' = faults + 1
        /\ Raised(t)
        /\ UNCHANGED dev_in
  /\ UNCHANGED <<out_queue, sidevars, objvars, fn, delay, wire, unanswered,
                 frames_sent, delivered, callvars, msgvars>>

\* what the receive loop does for next_action: where it goes on, and for
\* DO_ACK and DO_PROPAGATE the acknowledge it sends first
RxBranch(action) ==
  CASE action = "DO_ACK"       -> [pc |-> "send",  next |-> "loop"]
    [] action = "DO_RETRY"     -> [pc |-> "retry", next |-> "loop"]
    [] action = "DO_PROPAGATE" -> [pc |-> "send",  next |-> "put"]
    [] OTHER                   -> [pc |-> "loop",  next |-> "loop"]

\* lines 375-385 up to the call of _SendRaw: NextActionForReceivedMessage,
\* _LogReceived and the branch on next_action
RxDecide(t) ==
  /\ pc[t] = "decide"
  /\ IF ~InflightAssigned
     THEN /\ Raised(t)
          /\ UNCHANGED <<inflight, cb_count, outcome, terminate, retrying>>
     ELSE LET r == NextActionForReceivedMessage(inflight, rx_m[t])
              b == RxBranch(r.action)
          IN  /\ inflight' = r.inflight
              /\ IF r.resolved # "none"
                 THEN Resolve(inflight.msg, r.resolved)
                 ELSE UNCHANGED <<cb_count, outcome, terminate>>
              /\ pc' = [pc EXCEPT ![t] = b.pc]
              /\ sending' = [sending EXCEPT ![t] =
                              IF b.pc = "send" THEN RAW_MESSAGE_ACK ELSE Marker]
              /\ after_send' = [after_send EXCEPT ![t] = b.next]
              /\ rx_m' = IF b.next = "put" THEN rx_m
                         ELSE [rx_m EXCEPT ![t] = Marker]
              /\ retrying' = [retrying EXCEPT ![t] =
                               IF r.action = "DO_RETRY" THEN inflight.msg
                               ELSE NoMsg]
              /\ UNCHANGED tx_msg
  /\ UNCHANGED <<out_queue, qghost, restvars, send_lock, in_queue, raw_history, history,
                 arrived, pc_ctor, fn, delay, devvars, callvars,
                 rejected, resends, not_nak>>

\* line 383: self._inflight.GetMessage().payload is read now, after the
\* decision; with no message in flight any more it is an AttributeError
RxRetry(t) ==
  /\ pc[t] = "retry"
  /\ IF inflight.msg = NoMsg
     THEN /\ Raised(t)
          /\ retrying' = [retrying EXCEPT ![t] = NoMsg]
     ELSE /\ sending' = [sending EXCEPT ![t] = PayloadOf(inflight.msg)]
          /\ pc' = [pc EXCEPT ![t] = "send"]
          /\ UNCHANGED <<after_send, tx_msg, rx_m, retrying>>
  /\ UNCHANGED <<out_queue, qghost, restvars, objvars, fn, delay, devvars, callvars,
                 msgvars>>

\* line 386: self._in_queue.put((ts, m))
RxPut(t) ==
  /\ pc[t] = "put"
  /\ in_queue' = Append(in_queue, rx_m[t])
  /\ rx_m' = [rx_m EXCEPT ![t] = Marker]
  /\ pc' = [pc EXCEPT ![t] = "loop"]
  /\ UNCHANGED <<out_queue, sidevars, inflight, send_lock, terminate,
                 raw_history, history, arrived, pc_ctor, fn, delay, tx_msg,
                 sending, after_send, devvars, callvars, msgvars>>

(***************************************************************************)
(* _DriverReceivingThread byte by byte, lines 352-374: one iteration reads *)
(* one byte and looks at the head of buf.  The byte values and the frame   *)
(* codec (z.SOF, zmessage.ExtracRawMessage) are not among the source       *)
(* files; they are written from sections 3, 4.1 and 5 of the               *)
(* specification.  The checksum is a sum folded to one of two byte values. *)
(***************************************************************************)
\* the wire control bytes
SOF == 1
ACK == 6
NAK == 21
CAN == 24
\* the bytes the peer sends in SpecRx: the frame-start marker, a data byte
\* and the acknowledge
InBytes == {SOF, 2, ACK}
\* the window of line 366, in seconds
Window == 2

RECURSIVE SumSeq(_)
SumSeq(s) == IF s = <<>> THEN 0 ELSE Head(s) + SumSeq(Tail(s))

\* the checksum of the bytes between the marker and the checksum byte
Checksum(body) == (SumSeq(body) % 2) + 1

\* a start-marked frame: SOF, length, length - 1 payload bytes, checksum
FrameSize(b) == b[2] + 2
Complete(b) == Len(b) >= 2 /\ Len(b) >= FrameSize(b)
FrameOf(b) == SubSeq(b, 1, FrameSize(b))
ChecksumOk(f) == f[Len(f)] = Checksum(SubSeq(f, 2, Len(f) - 1))

\* what the head of a buffer that starts with SOF is
Classify(b) ==
  IF ~Complete(b) THEN "incomplete"
  ELSE IF ChecksumOk(FrameOf(b)) THEN "frame" ELSE "invalid"

\* zmessage.ExtracRawMessage(buf), the values it can return: the frame, or
\* nothing (<<>>) while the frame is incomplete.  The loop tells only these
\* two apart (if not m), so for a complete frame with a wrong checksum the
\* codec hands back either of them.
ExtracRawMessage(b) ==
  CASE Classify(b) = "incomplete" -> {<<>>}
    [] Classify(b) = "frame"      -> {FrameOf(b)}
    [] OTHER                      -> {<<>>, FrameOf(b)}

\* what a raw message extracted from buf is for the in-flight state machine
KindOf(m) ==
  IF m[1] = SOF THEN (IF ChecksumOk(m) THEN "frame" ELSE "invalid")
  ELSE IF m[1] \in {ACK, NAK, CAN} THEN "control" ELSE "junk"
RawOf(m) ==
  CASE m = <<ACK>> -> RAW_MESSAGE_ACK
    [] m = <<NAK>> -> RAW_MESSAGE_NAK
    [] m = <<CAN>> -> RAW_MESSAGE_CAN
    [] m[1] = SOF /\ ChecksumOk(m) -> Frame(0)
    [] m[1] = SOF /\ ~ChecksumOk(m) -> Raw("BAD", 0)
    [] OTHER -> Raw("JUNK", 0)

\* one iteration of the loop in which device.read(1) returned a byte, up to
\* the call of NextActionForReceivedMessage (an iteration whose read timed
\* out changes nothing, line 354-356)
RxIter(t) ==
  /\ Runs(t, "rx")
  /\ pc[t] = "loop"
  /\ ~terminate
  /\ dev_bytes # <<>>
  /\ dev_bytes' = Tail(dev_bytes)
  /\ LET b     == Append(buf, Head(dev_bytes))
         since == IF b[1] = SOF /\ last_sof_arrival = NoTime
                  THEN now ELSE last_sof_arrival
     IN  \E m \in (IF b[1] = SOF THEN ExtracRawMessage(b)
                   ELSE {SubSeq(b, 1, 1)}) :
           IF m = <<>>
           THEN IF now - since > Window
                THEN \* assert False, line 370
                     /\ Raised(t)
                     /\ buf' = <<>>
                     /\ last_sof_arrival' = NoTime
                     /\ rx_last' = [case |-> "desync", dropped |-> Len(b)]
                ELSE \* continue, line 372
                     /\ buf' = b
                     /\ last_sof_arrival' = since
                     /\ rx_last' = [case |-> Classify(b), dropped |-> 0]
                     /\ UNCHANGED <<pc, sending, after_send, tx_msg, rx_m>>
           ELSE \* lines 373-374
                /\ last_sof_arrival' = NoTime
                /\ buf' = SubSeq(b, Len(m) + 1, Len(b))
                /\ rx_last' = [case |-> KindOf(m), dropped |-> Len(m)]
                /\ rx_m' = [rx_m EXCEPT ![t] = RawOf(m)]
                /\ pc' = [pc EXCEPT ![t] = "decide"]
                /\ UNCHANGED <<sending, after_send, tx_msg>>
  /\ UNCHANGED <<out_queue, qghost, retrying, qcvars, bytes_sent, now, objvars, fn,
                 delay, devvars, callvars, msgvars>>

\* the peer sends one byte
PeerByte(b) ==
  /\ bytes_sent < MaxBytes
  /\ dev_bytes' = Append(dev_bytes, b)
  /\ bytes_sent' = bytes_sent + 1
  /\ UNCHANGED <<out_queue, qghost, retrying, qcvars, buf, last_sof_arrival, now,
                 rx_last, drvvars>>

\* a second passes
Tick ==
  /\ now < MaxTime
  /\ now' = now + 1
  /\ UNCHANGED <<out_queue, qghost, retrying, qcvars, dev_bytes, bytes_sent, buf,
                 last_sof_arrival, rx_last, drvvars>>

(***************************************************************************)
(* _DriverForwardingThread.                                                *)
(***************************************************************************)
\* line 311 lets the thread enter fn, when it starts and after a fault, only
\* while _terminate is false; fn then blocks in self._in_queue.get()
FwEnter(t) ==
  /\ Runs(t, "fw")
  /\ pc[t] = "loop"
  /\ ~terminate
  /\ pc' = [pc EXCEPT ![t] = "get"]
  /\ UNCHANGED <<out_queue, sidevars, objvars, fn, delay, tx_msg, rx_m, sending,
                 after_send, devvars, callvars, msgvars>>

\* ts, m = self._in_queue.get() returns: the marker ends the loop and the
\* thread arrives at the barrier; a frame is held in the local m
FwGet(t) ==
  /\ pc[t] = "get"
  /\ in_queue # <<>>
  /\ in_queue' = Tail(in_queue)
  /\ IF Head(in_queue) = Marker
     THEN /\ pc' = [pc EXCEPT ![t] = "arrived"]
          /\ arrived' = arrived \cup {t}
          /\ UNCHANGED rx_m
     ELSE /\ pc' = [pc EXCEPT ![t] = "deliver"]
          /\ rx_m' = [rx_m EXCEPT ![t] = Head(in_queue)]
          /\ UNCHANGED arrived
  /\ UNCHANGED <<out_queue, sidevars, inflight, send_lock, terminate,
                 raw_history, history, pc_ctor, fn, delay, tx_msg, sending,
                 after_send, devvars, callvars, msgvars>>

\* lines 393-394: the frame goes to the listener, whose put may fault; then
\* the next get
FwDeliver(t) ==
  /\ pc[t] = "deliver"
  /\ \/ /\ delivered' = Append(delivered, rx_m[t])
        /\ rx_m' = [rx_m EXCEPT ![t] = Marker]
        /\ pc' = [pc EXCEPT ![t] = "get"]
        /\ UNCHANGED <<faults, sending, after_send, tx_msg>>
     \/ /\ faults < MaxFaults
        /\ faults' = faults + 1
        /\ Raised(t)
        /\ UNCHANGED delivered
  /\ UNCHANGED <<out_queue, sidevars, objvars, fn, delay, dev_in, wire,
                 unanswered, frames_sent, callvars, msgvars>>

(***************************************************************************)
(* The callers; they hold the Driver once its constructor has returned.    *)
(***************************************************************************)
\* SendMessage(m): self._out_queue.put(m.priority, m)
SendMessage(Q, m) == QPut(Q, MsgLevel(m), MsgNode(m), m)

\* a caller submits message m
Submit(m) ==
  /\ pc_ctor = "done"
  /\ m \notin submitted
  /\ out_queue' = SendMessage(out_queue, m)
  /\ submitted' = submitted \cup {m}
  /\ UNCHANGED <<sidevars, objvars, thrvars, devvars, pc_wait, wait_snapshot,
                 pc_term, msgvars>>

\* WaitUntilAllPreviousMessagesHaveBeenHandled up to its second
\* lock.acquire()
WaitCall ==
  /\ pc_ctor = "done"
  /\ pc_wait = "idle"
  /\ out_queue' = SendMessage(out_queue, WaitMsg)
  /\ wait_snapshot' = submitted
  /\ pc_wait' = "blocked"
  /\ UNCHANGED <<sidevars, objvars, thrvars, devvars, submitted, pc_term,
                 msgvars>>

\* the callback released the lock: the call returns
WaitReturn ==
  /\ pc_wait = "blocked"
  /\ cb_count[WaitMsg] > 0
  /\ pc_wait' = "returned"
  /\ UNCHANGED <<out_queue, sidevars, objvars, thrvars, devvars, submitted,
                 wait_snapshot, pc_term, msgvars>>

\* Terminate, line 264: self._in_queue.put((time.time(), None))
TermMarker ==
  /\ pc_ctor = "done"
  /\ pc_term = "idle"
  /\ in_queue' = Append(in_queue, Marker)
  /\ pc_term' = "marker_put"
  /\ UNCHANGED <<out_queue, sidevars, inflight, send_lock, terminate,
                 raw_history, history, arrived, pc_ctor, thrvars, devvars,
                 submitted, pc_wait, wait_snapshot, msgvars>>

\* Terminate, lines 265-267: the barrier message is sent, the caller blocks
TermSend ==
  /\ pc_term = "marker_put"
  /\ out_queue' = SendMessage(out_queue, TermMsg)
  /\ pc_term' = "blocked"
  /\ UNCHANGED <<sidevars, objvars, thrvars, devvars, submitted, pc_wait,
                 wait_snapshot, msgvars>>

\* Terminate, line 270: cb released the lock, the caller arrives at the barrier
TermArrive ==
  /\ pc_term = "blocked"
  /\ cb_count[TermMsg] > 0
  /\ arrived' = arrived \cup {Caller}
  /\ pc_term' = "at_barrier"
  /\ UNCHANGED <<out_queue, sidevars, inflight, send_lock, terminate, in_queue,
                 raw_history, history, pc_ctor, thrvars, devvars, submitted,
                 pc_wait, wait_snapshot, msgvars>>

\* the barrier lets the caller pass: Terminate returns
TermReturn ==
  /\ pc_term = "at_barrier"
  /\ Cardinality(arrived) >= BarrierParties
  /\ pc_term' = "returned"
  /\ UNCHANGED <<out_queue, sidevars, objvars, thrvars, devvars, submitted,
                 pc_wait, wait_snapshot, msgvars>>

(***************************************************************************)
(* The peer behind the device.  It answers a transmitted message payload   *)
(* with one control byte, or not at all, and sends data frames: the reply  *)
(* to a message it was sent, or an unsolicited one.                        *)
(***************************************************************************)
PeerAnswer(kind) ==
  /\ unanswered # <<>>
  /\ Len(dev_in) < MaxDevIn
  /\ dev_in' = Append(dev_in, Raw(kind, 0))
  /\ unanswered' = Tail(unanswered)
  /\ not_nak' = IF kind = "NAK" THEN not_nak
                ELSE not_nak \cup {Head(unanswered)}
  /\ UNCHANGED <<out_queue, sidevars, objvars, thrvars, wire, frames_sent,
                 delivered, faults, callvars, cb_count, outcome, rejected,
                 resends>>

PeerFrame(k) ==
  /\ frames_sent < MaxFrames
  /\ Len(dev_in) < MaxDevIn
  /\ dev_in' = Append(dev_in, Frame(k))
  /\ frames_sent' = frames_sent + 1
  /\ not_nak' = IF k = 0 THEN not_nak ELSE not_nak \cup {k}
  /\ UNCHANGED <<out_queue, sidevars, objvars, thrvars, wire, unanswered,
                 delivered, faults, callvars, cb_count, outcome, rejected,
                 resends>>

\* the peer sends an unsolicited data frame; the frames are told apart by a
\* serial number, kept below zero so that none is the reply to a message
Unsolicited(n) == Frame(0 - n)
Serial(raw) == 0 - raw.about

PeerUnsolicited ==
  /\ frames_sent < MaxInFrames
  /\ Len(dev_in) < MaxDevIn
  /\ dev_in' = Append(dev_in, Unsolicited(frames_sent + 1))
  /\ frames_sent' = frames_sent + 1
  /\ UNCHANGED <<out_queue, sidevars, objvars, thrvars, wire, unanswered,
                 delivered, faults, callvars, msgvars>>

(***************************************************************************)
(* Spec: the message path.  The transmit and the receive thread, the       *)
(* callers that submit messages and wait for the queue to drain, and the   *)
(* peer, under every interleaving.                                         *)
(***************************************************************************)
MsgPath ==
  \/ CtorInflight
  \/ CtorLock
  \/ \E t \in Threads : Backoff(t)
  \/ \E t \in Threads : SendEnter(t)
  \/ \E t \in Threads : SendWrite(t)
  \/ \E t \in Threads : TxGet(t)
  \/ \E t \in Threads : TxStart(t)
  \/ \E t \in Threads : TxWait(t)
  \/ \E t \in Threads : TxTimeout(t)
  \/ \E t \in Threads : RxRead(t)
  \/ \E t \in Threads : RxDecide(t)
  \/ \E t \in Threads : RxRetry(t)
  \/ \E t \in Threads : RxPut(t)
  \/ \E kind \in {"ACK", "NAK", "CAN"} : PeerAnswer(kind)
  \/ \E k \in {0} \cup Started : PeerFrame(k)

Next ==
  \/ MsgPath
  \/ \E m \in Msgs : Submit(m)
  \/ WaitCall
  \/ WaitReturn

Spec == Init /\ [][Next]_vars

(***************************************************************************)
(* SpecT: the shutdown.  The three workers, a caller that submits one      *)
(* message, the caller of Terminate, and the peer.                         *)
(***************************************************************************)
NextT ==
  \/ MsgPath
  \/ \E t \in Threads : LoopExit(t)
  \/ \E t \in Threads : FwEnter(t)
  \/ \E t \in Threads : FwGet(t)
  \/ \E t \in Threads : FwDeliver(t)
  \/ Submit(1)
  \/ TermMarker
  \/ TermSend
  \/ TermArrive
  \/ TermReturn

SpecT == Init /\ [][NextT]_vars

(***************************************************************************)
(* SpecTFair: the shutdown under fair scheduling.  A thread that can take  *)
(* a step takes one: the scheduler runs every runnable thread, sleeps and  *)
(* bounded waits end, and the constructor and a caller inside Terminate    *)
(* go on.  Whether Terminate is called, what is submitted and what the     *)
(* peer sends is left open.                                                *)
(***************************************************************************)
ThreadStep(t) ==
  \/ Backoff(t)
  \/ LoopExit(t)
  \/ SendEnter(t)
  \/ SendWrite(t)
  \/ TxGet(t)
  \/ TxStart(t)
  \/ TxWait(t)
  \/ TxTimeout(t)
  \/ RxRead(t)
  \/ RxDecide(t)
  \/ RxRetry(t)
  \/ RxPut(t)
  \/ FwEnter(t)
  \/ FwGet(t)
  \/ FwDeliver(t)

TerminateStep == TermSend \/ TermArrive \/ TermReturn

FairScheduling ==
  /\ \A t \in Threads : WF_vars(ThreadStep(t))
  /\ WF_vars(CtorInflight \/ CtorLock)
  /\ WF_vars(TerminateStep)

SpecTFair == Init /\ [][NextT]_vars /\ FairScheduling

(***************************************************************************)
(* SpecQ: the queue alone, under every interleaving of put and get.        *)
(***************************************************************************)
QLevels == {CtrlLevel, HiLevel, LoLevel}

InitQ == DrvInit /\ fn = OwnFunctions /\ QGhostInit /\ out_queue = QInit

\* a caller's put of a new message at (level, node)
QPutStep(level, node) ==
  /\ nput < MaxPuts
  /\ out_queue' = QPut(out_queue, level, node, nput + 1)
  /\ nput' = nput + 1
  /\ burst' = IF out_queue.q = {} THEN [l \in FairLevels |-> TRUE]
              ELSE [l \in FairLevels |->
                      burst[l] /\ ~(l = level /\ served_since_empty[l])]
  /\ served_since_empty' =
       IF out_queue.q = {} THEN [l \in FairLevels |-> FALSE]
       ELSE served_since_empty
  /\ UNCHANGED <<last_get, owed, skipped, drvvars, auxvars>>

\* the transmit loop's get
QGetStep ==
  /\ out_queue.q # {}
  /\ LET e == QHead(out_queue)
         Q == QGet(out_queue)
     IN  /\ out_queue' = Q
         /\ last_get' = e
         /\ IF e.level \in FairLevels
            THEN /\ skipped' = owed[e.level][e.node]
                 /\ owed' = [owed EXCEPT ![e.level] =
                      [d \in Nodes |->
                         IF d = e.node THEN QueuedAt(Q, e.level) \ {d}
                         ELSE owed[e.level][d] \ {e.node}]]
            ELSE /\ skipped' = {}
                 /\ UNCHANGED owed
         /\ served_since_empty' =
              [l \in FairLevels |-> served_since_empty[l] \/ l = e.level]
  /\ UNCHANGED <<nput, burst, drvvars, auxvars>>

NextQ ==
  \/ \E level \in QLevels, node \in Nodes : QPutStep(level, node)
  \/ QGetStep

SpecQ == InitQ /\ [][NextQ]_vars

(***************************************************************************)
(* SpecRx: the receive loop byte by byte, with the constructor, the peer   *)
(* that sends bytes and the clock.  Nothing is submitted, so no message is *)
(* in flight.  SpecRxFair: the same with the threads scheduled and the     *)
(* clock running; whether the peer sends is left open.                     *)
(***************************************************************************)
InitRx == DrvInit /\ fn = OwnFunctions /\ QGhostInit /\ out_queue = QInit

NextRx ==
  \/ CtorInflight
  \/ CtorLock
  \/ \E t \in Threads : Backoff(t)
  \/ \E t \in Threads : SendEnter(t)
  \/ \E t \in Threads : SendWrite(t)
  \/ \E t \in Threads : RxIter(t)
  \/ \E t \in Threads : RxDecide(t)
  \/ \E t \in Threads : RxPut(t)
  \/ \E b \in InBytes : PeerByte(b)
  \/ Tick

SpecRx == InitRx /\ [][NextRx]_vars

RxStep(t) ==
  \/ Backoff(t)
  \/ SendEnter(t)
  \/ SendWrite(t)
  \/ RxIter(t)
  \/ RxDecide(t)
  \/ RxPut(t)

FairRx ==
  /\ \A t \in Threads : WF_vars(RxStep(t))
  /\ WF_vars(CtorInflight \/ CtorLock)
  /\ WF_vars(Tick)

SpecRxFair == InitRx /\ [][NextRx]_vars /\ FairRx

(***************************************************************************)
(* SpecSup: the supervision wrapper.  Every worker's function may raise at *)
(* every call, any number of times; the callers shut the driver down.      *)
(***************************************************************************)
NextSup ==
  \/ CtorInflight
  \/ CtorLock
  \/ \E t \in Threads : BodyRaises(t)
  \/ \E t \in Threads : Backoff(t)
  \/ \E t \in Threads : LoopExit(t)
  \/ \E t \in Threads : TxGet(t)
  \/ \E t \in Threads : TxStart(t)
  \/ \E t \in Threads : FwEnter(t)
  \/ \E t \in Threads : FwGet(t)
  \/ TermMarker
  \/ TermSend
  \/ TermArrive
  \/ TermReturn

SpecSup == Init /\ [][NextSup]_vars

(***************************************************************************)
(* SpecIn: the inbound path.  The peer sends unsolicited frames; the       *)
(* receive function acknowledges them and puts them into _in_queue, the    *)
(* forwarding function hands them to the listener.  Nothing is submitted.  *)
(***************************************************************************)
NextIn ==
  \/ CtorInflight
  \/ CtorLock
  \/ \E t \in Threads : Backoff(t)
  \/ \E t \in Threads : SendEnter(t)
  \/ \E t \in Threads : SendWrite(t)
  \/ \E t \in Threads : RxRead(t)
  \/ \E t \in Threads : RxDecide(t)
  \/ \E t \in Threads : RxPut(t)
  \/ \E t \in Threads : FwEnter(t)
  \/ \E t \in Threads : FwGet(t)
  \/ \E t \in Threads : FwDeliver(t)
  \/ PeerUnsolicited

SpecIn == Init /\ [][NextIn]_vars

(***************************************************************************)
(* SpecQC: put in a caller's thread overlapping with get in the transmit   *)
(* thread.  MessageQueueOut takes no lock of its own; only _q, a           *)
(* queue.PriorityQueue, is thread-safe.  self._per_node_size[n] += 1 and   *)
(* -= 1 are each a read of the entry followed by a write, and the other    *)
(* thread can run between the two.                                         *)
(***************************************************************************)
\* put, lines 114-132 up to the read of self._per_node_size[node]
PutBegin(level, node) ==
  /\ putting.pc = "idle"
  /\ nput < MaxPuts
  /\ LET R     == QResetIfEmpty(out_queue)
         count == QPutCount(R, level, node)
     IN  /\ out_queue' =
               [R EXCEPT
                  !.hi_counts = IF level = 2 THEN [@ EXCEPT ![node] = count]
                                ELSE @,
                  !.lo_counts = IF level = 3 THEN [@ EXCEPT ![node] = count]
                                ELSE @,
                  !.counter   = IF level \notin {2, 3} THEN @ + 1 ELSE @]
         /\ putting' = [pc |-> "store",
                        entry |-> [level |-> level, count |-> count,
                                   node |-> node, msg |-> nput + 1],
                        size |-> R.per_node_size[node]]
  /\ nput' = nput + 1
  /\ UNCHANGED <<last_get, owed, skipped, served_since_empty, burst,
                 retrying, bytevars, getting, drvvars>>

\* put, line 132: the write of self._per_node_size[node]
PutStore ==
  /\ putting.pc = "store"
  /\ out_queue' = [out_queue EXCEPT
                     !.per_node_size[putting.entry.node] = putting.size + 1]
  /\ putting' = [putting EXCEPT !.pc = "enqueue"]
  /\ UNCHANGED <<qghost, retrying, bytevars, getting, drvvars>>

\* put, line 133: self._q.put
PutEnqueue ==
  /\ putting.pc = "enqueue"
  /\ out_queue' = [out_queue EXCEPT !.q = @ \cup {putting.entry}]
  /\ putting' = NotPutting
  /\ UNCHANGED <<qghost, retrying, bytevars, getting, drvvars>>

\* get, lines 136-142 up to the read of self._per_node_size[priority[2]]
GetTake ==
  /\ getting.pc = "idle"
  /\ out_queue.q # {}
  /\ LET e == QHead(out_queue)
     IN  /\ out_queue' = [QFloorsAfterGet(out_queue, e) EXCEPT !.q = @ \ {e}]
         /\ getting' = [pc |-> "store", node |-> e.node,
                        size |-> out_queue.per_node_size[e.node]]
         /\ last_get' = e
  /\ UNCHANGED <<nput, owed, skipped, served_since_empty, burst, retrying,
                 bytevars, putting, drvvars>>

\* get, line 142: the write of self._per_node_size[priority[2]]
GetStore ==
  /\ getting.pc = "store"
  /\ out_queue' = [out_queue EXCEPT
                     !.per_node_size[getting.node] = getting.size - 1]
  /\ getting' = NotGetting
  /\ UNCHANGED <<qghost, retrying, bytevars, putting, drvvars>>

NextQC ==
  \/ \E level \in QLevels, node \in Nodes : PutBegin(level, node)
  \/ PutStore
  \/ PutEnqueue
  \/ GetTake
  \/ GetStore

SpecQC == InitQ /\ [][NextQC]_vars

(***************************************************************************)
(* C5.  Queue fairness: within each fairness-managed level no destination  *)
(* is served twice by get before every other destination that had an entry *)
(* queued at that level when it was first served has been served once.     *)
(* skipped holds the destinations the last get passed over in that way.    *)
(***************************************************************************)
QueueFairness == skipped = {}

\* C5, as amended: the same, as long as every entry of the level was put
\* before get served the first entry of that level since the queue was last
\* empty (the entries of a level were queued in one burst).
BurstFairness ==
  last_get.level \in FairLevels /\ burst[last_get.level] => skipped = {}

\* C5 witness: in a burst of low-priority puts destination 7 was served for
\* the second time after 3 was, with 3 still queued for a third turn.
BurstFairnessWitness ==
  /\ last_get.level = LoLevel /\ burst[LoLevel]
  /\ last_get.node = 7 /\ last_get.count = 2
  /\ owed[LoLevel][7] = {3} /\ owed[LoLevel][3] = {}

(***************************************************************************)
(* The message path, under Spec.                                           *)
(***************************************************************************)
\* the messages in flight: recorded by the transmit loop and not resolved
InFlight == {m \in Started : outcome[m] = "none"}

\* the threads inside the section of _SendRaw
InSection == {t \in Threads : pc[t] = "write"}

\* C1.  Single-outstanding: at most one message is in flight at any
\* instant, and a message the transmit loop has started while another was
\* in flight does not exist: every started message but the last is resolved.
SingleOutstanding ==
  /\ Cardinality(InFlight) <= 1
  /\ \A i \in 1 .. Len(history) - 1 : outcome[history[i]] # "none"
  /\ inflight.msg # NoMsg => InFlight = {inflight.msg}

\* C1 witness: a message is in flight and StartMessage has refused another
\* one in the meantime.
SingleOutstandingWitness ==
  /\ Cardinality(InFlight) = 1
  /\ rejected \cap Msgs # {}
  /\ Cardinality(submitted) = 2

\* C2.  The transmit loop never holds a newly dequeued message while the
\* previously dequeued one is still in flight.
NoDequeueWhileUnresolved ==
  \A t \in Threads : pc[t] = "start" => InFlight = {}

\* C3.  No message passed to SendMessage is lost: it is queued, held by the
\* transmit loop, in flight, or its callback has been invoked.
NoMessageLost ==
  \A m \in submitted :
     \/ cb_count[m] >= 1
     \/ \E e \in out_queue.q : e.msg = m
     \/ tx_msg = m
     \/ inflight.msg = m

\* C4.  No message's completion callback is ever invoked more than once.
CallbackAtMostOnce == \A m \in AllMsgs : cb_count[m] <= 1

\* C4 witness: the receive loop has resolved a message (retries exhausted)
\* and invoked its callback while the transmit loop is still in
\* WaitForMessageCompletion for it.
CallbackAtMostOnceWitness ==
  \E t \in Threads :
     /\ pc[t] = "wait"
     /\ tx_msg \in Msgs
     /\ outcome[tx_msg] = "Failed"
     /\ cb_count[tx_msg] = 1

\* C6.  Retry bound: a message the peer has answered with nothing but
\* negative-acknowledges and that is resolved Failed was resent by the
\* receive loop exactly MaxRetries times, and its callback fired once.
RetryBound ==
  \A m \in Msgs :
     outcome[m] = "Failed" /\ m \notin not_nak =>
        resends[m] = MaxRetries /\ cb_count[m] = 1

\* C7.  Quiescence: when WaitUntilAllPreviousMessagesHaveBeenHandled has
\* returned, the callback of every message submitted before the call has
\* been invoked.
Quiescence ==
  pc_wait = "returned" => \A m \in wait_snapshot : cb_count[m] >= 1

\* C10.  Write mutual exclusion: at most one thread is inside the section
\* of _SendRaw, and the sent entries of the raw history are the writes on
\* the channel in the same order: the two are in step, but for the entry of
\* the thread that is inside the section and has not written yet.
WriteMutualExclusion ==
  /\ Cardinality(InSection) <= 1
  /\ \A t \in InSection : send_lock = t
  /\ wire = <<>>
  /\ IF InSection = {} THEN raw_history = <<>>
     ELSE \E t \in InSection : raw_history = <<sending[t]>>

\* C10 witness: the receive thread is inside the section to acknowledge a
\* frame while the transmit thread is waiting for the lock with a message.
WriteMutualExclusionWitness ==
  \E t, u \in Threads :
     /\ pc[t] = "write" /\ Runs(t, "rx") /\ sending[t] = RAW_MESSAGE_ACK
     /\ pc[u] = "send" /\ Runs(u, "tx")

(***************************************************************************)
(* The shutdown, under SpecT and SpecTFair.                                *)
(***************************************************************************)
\* C8.  Termination safety: in every state where Terminate has returned,
\* each of the three workers has left its loop and arrived at the
\* termination barrier.
TerminationSafety ==
  pc_term = "returned" => \A t \in Threads : pc[t] = "arrived"

\* C8 witness: Terminate has returned after a worker had been through a
\* fault and its backoff, and with a frame left in the inbound queue.
TerminationSafetyWitness ==
  /\ pc_term = "returned"
  /\ \E t \in Threads : delay[t] > 1
  /\ in_queue # <<>>

\* C9.  Termination liveness: once Terminate is called it eventually
\* returns.
TerminateReturns == (pc_term # "idle") ~> (pc_term = "returned")

(***************************************************************************)
(* The constructor and the workers it has started, under Spec.             *)
(***************************************************************************)
\* C20.  Initialization ordering: a worker that is about to use _inflight
\* (NextActionForReceivedMessage, StartMessage) or _send_lock (_SendRaw)
\* finds the attribute assigned by the constructor.
InitOrdering ==
  \A t \in Threads :
     /\ pc[t] \in {"decide", "start"} => InflightAssigned
     /\ pc[t] = "send" => LockAssigned

(***************************************************************************)
(* The shutdown and the message in flight, under SpecT.                    *)
(***************************************************************************)
\* C12.  No message is in flight once the termination flag is true.  The
\* transmit loop starts no message after the flag was set, so a message in
\* flight then was in flight at the moment the flag became true.
NoInflightAtShutdown == terminate => InFlight = {}

(***************************************************************************)
(* The queue's counters, under SpecQ.  The messages SpecQ puts are         *)
(* numbered in the order of the puts.                                      *)
(***************************************************************************)
\* the entries of queue Q at the levels that take the global counter
Expedited(Q) == {e \in Q.q : e.level \notin FairLevels}

\* C15.  Expedited FIFO: among the queued entries of one expedited level
\* the global counters are distinct and grow in the order of the puts, and
\* the entry get returned last at such a level was put before every entry
\* of that level which is still queued.
ExpeditedFifo ==
  /\ \A e, f \in Expedited(out_queue) :
        e.level = f.level /\ e.msg < f.msg => e.count < f.count
  /\ \A f \in Expedited(out_queue) :
        last_get.level = f.level => last_get.msg < f.msg /\ last_get.count < f.count

\* C15 witness: the queue drained, and then get returned an expedited entry
\* for one destination while an expedited entry for the other destination,
\* put after it, is still queued.
ExpeditedFifoWitness ==
  /\ last_get.level = CtrlLevel
  /\ last_get.count > 0
  /\ last_get.msg > last_get.count + 1
  /\ \E f \in Expedited(out_queue) : f.node # last_get.node

\* the floor of a fairness-managed level
QFloor(Q, level) == IF level = 2 THEN Q.hi_min ELSE Q.lo_min

\* C16.  Floor advance on dequeue: after get returned an entry of a
\* fairness-managed level, that level's floor is the entry's counter, until
\* a put finds the queue empty and resets the floors.
FloorAdvance ==
  last_get.level \in FairLevels /\ served_since_empty[last_get.level]
     => QFloor(out_queue, last_get.level) = last_get.count

(***************************************************************************)
(* The retry of the receive loop, under Spec.                              *)
(***************************************************************************)
\* C17.  Retry identity: from the evaluation of the negative-acknowledge or
\* collision byte to the end of the retry write, the message that was in
\* flight at the evaluation is still the one in flight, and the payload
\* handed to _SendRaw is its payload.
RetryIdentity ==
  \A t \in Threads :
     retrying[t] # NoMsg =>
        /\ inflight.msg = retrying[t]
        /\ pc[t] \in {"send", "write"} => sending[t] = PayloadOf(retrying[t])

(***************************************************************************)
(* The framing of the receive loop, under SpecRx and SpecRxFair.           *)
(***************************************************************************)
\* the threads that run the receive function
Receivers == {t \in Threads : Runs(t, "rx")}

\* C14.  Framing error handling: the iteration that found a complete frame
\* with a wrong checksum at the head of buf discarded exactly one byte of
\* buf, and the loop goes on to write a negative-acknowledge: until it is
\* back at the loop test it is in _SendRaw with that byte.
FramingError ==
  rx_last.case = "invalid" =>
     /\ rx_last.dropped = 1
     /\ \A t \in Receivers :
           \/ pc[t] \in {"loop", "backoff"}
           \/ pc[t] \in {"send", "write"} /\ sending[t] = RAW_MESSAGE_NAK

\* buf starts with the marker, the frame is incomplete and the window since
\* the marker arrived has elapsed
WindowElapsed ==
  /\ buf # <<>> /\ buf[1] = SOF
  /\ Classify(buf) = "incomplete"
  /\ last_sof_arrival # NoTime
  /\ now - last_sof_arrival > Window

\* C18.  Desynchronization detection: once the window has elapsed on an
\* incomplete frame the loop eventually raises (assert False, line 370).
DesyncDetected == WindowElapsed ~> (rx_last.case = "desync")

(***************************************************************************)
(* The supervision wrapper, under SpecSup.                                 *)
(***************************************************************************)
\* C13.  Supervision: the first backoff delay is the initial interval; a
\* worker that raised sleeps and goes back to the loop test, and reaches
\* the barrier only when termination was requested (the flag, or for the
\* forwarding function the marker); the delay changes only at the end of a
\* sleep, where it doubles, and it stays as it is only once it has reached
\* the threshold of 60 s, so it never reaches twice the threshold.
Supervision ==
  /\ \A t \in Threads : delay[t] = 1
  /\ [](\A t \in Threads :
          /\ delay[t] < 2 * BackoffLimit
          /\ pc[t] = "arrived" => terminate \/ Runs(t, "fw"))
  /\ [][\A t \in Threads :
          /\ pc[t] = "backoff" => pc'[t] \in {"backoff", "loop"}
          /\ delay'[t] # delay[t] =>
                pc[t] = "backoff" /\ pc'[t] = "loop" /\ delay'[t] = 2 * delay[t]
          /\ pc[t] = "backoff" /\ pc'[t] = "loop" /\ delay'[t] = delay[t] =>
                delay[t] >= BackoffLimit]_vars

\* C13 witness: a worker is back at the loop test with the delay at its
\* largest value, 64 s, while another one has not raised yet and
\* termination was not requested.
SupervisionWitness ==
  /\ ~terminate
  /\ \E t, u \in Threads :
        /\ pc[t] = "loop" /\ delay[t] = 128
        /\ pc[u] = "loop" /\ delay[u] = 1

(***************************************************************************)
(* The inbound path, under SpecIn.  The device hands the frames over in    *)
(* the order the peer sent them, which is the order of their serial        *)
(* numbers: that is the order in which the receive loop extracts them.     *)
(***************************************************************************)
\* C11.  Inbound ordering: the listener is given the frames in the order of
\* their extraction, none of them twice.
InboundOrder ==
  \A i, j \in 1 .. Len(delivered) :
     i < j => Serial(delivered[i]) < Serial(delivered[j])

(***************************************************************************)
(* The queue's sizes, under SpecQC.                                        *)
(***************************************************************************)
\* the entries of queue Q for destination n
EntriesFor(Q, n) == {e \in Q.q : e.node = n}

RECURSIVE SumSizes(_, _)
SumSizes(Q, ns) ==
  IF ns = {} THEN 0
  ELSE LET n == CHOOSE x \in ns : TRUE
       IN  QSizeForNode(Q, n) + SumSizes(Q, ns \ {n})

\* C19.  Queue-depth bookkeeping: whenever no put and no get is under way,
\* qsize_for_node(n) is the number of queued entries for n, it is not
\* negative, and the per-destination sizes sum to qsize().
QueueDepth ==
  putting.pc = "idle" /\ getting.pc = "idle" =>
     /\ \A n \in AllNodes :
           /\ QSizeForNode(out_queue, n) = Cardinality(EntriesFor(out_queue, n))
           /\ QSizeForNode(out_queue, n) >= 0
     /\ SumSizes(out_queue, AllNodes) = QSize(out_queue)

====
